---- MODULE Spec2Model ----
(***************************************************************************)
(* aws-auth-operator: reconciliation of MapRole objects into the mapRoles  *)
(* field of the aws-auth ConfigMap (src/src/bin/operator.rs).              *)
(*                                                                         *)
(* One reconcile attempt is split at its network calls: the part up to the *)
(* answer of api.get (get, decode, merge, early return) is one step, the   *)
(* answer of api.patch is the next.  Attempts of different objects         *)
(* interleave; attempts of one object are serialized by the controller.    *)
(***************************************************************************)
EXTENDS Naturals, Sequences, FiniteSets, TLC

VARIABLES
  cm,        \* the aws-auth ConfigMap as the API server holds it
  obj,       \* the MapRole objects: [exists, hasFin, deleting, spec]
  pc,        \* per object: where its in-flight attempt is suspended
  ev,        \* per object: the finalizer event of the in-flight attempt
  mr,        \* per object: mr.spec of the in-flight attempt
  fetched,   \* per object: cm_maproles_str of the in-flight attempt
  patch,     \* per object: the JSON patch the attempt is submitting
  res,       \* per object: how its last attempt ended, and the requeue
  dirty,     \* per object: a watch event is waiting to be delivered
  crashed,   \* the process has panicked
  envLeft    \* disturbances still to come: writes of other clients to the
             \* ConfigMap, API calls failing in transport, edits of specs

vars == <<cm, obj, pc, ev, mr, fetched, patch, res, dirty, crashed,
          envLeft>>

----------------------------------------------------------------------------
(* Bounds *)

MaxEnv == 2

\* longest entry list the merges are run on as an input
MaxLen == 2

Objs == {"o1", "o2"}

----------------------------------------------------------------------------
(* MapRoleSpec values and the mapRoles text *)

MkSpec(r, u, g) == [rolearn |-> r, username |-> u, groups |-> g]

NoSpec == MkSpec("", "", <<>>)

A1 == MkSpec("roleA", "alice", <<"g1">>)
A2 == MkSpec("roleA", "bob", <<"g1">>)
A3 == MkSpec("roleA", "alice", <<"g1", "g2">>)
B1 == MkSpec("roleB", "carol", <<"g3">>)

SpecSet == {A1, A2, A3, B1}

\* A mapRoles text: malformed, or a YAML sequence in serde_yaml's own
\* output style (canon) or in another style, holding the entries.
MkText(c, es) == [wf |-> TRUE, canon |-> c, entries |-> es]

Malformed == [wf |-> FALSE, canon |-> FALSE, entries |-> <<>>]

NoText == Malformed

\* serde_yaml::from_str: the entries, when the text is well-formed
DecodeOk(text) == text.wf

Decode(text) == text.entries

\* serde_yaml::to_string: always serde_yaml's own style
Encode(entries) == MkText(TRUE, entries)

\* The ConfigMap: absent, present without data, present without the
\* mapRoles key, or present with a mapRoles text.
Missing == [rec |-> "missing", text |-> NoText]
NoData == [rec |-> "nodata", text |-> NoText]
NoField == [rec |-> "nofield", text |-> NoText]
Present(text) == [rec |-> "present", text |-> text]

----------------------------------------------------------------------------
(* The Merge Engine: the in-memory edits of apply and cleanup *)

Matches(entries, rolearn) ==
  {i \in 1..Len(entries) : entries[i].rolearn = rolearn}

\* iter().find(|e| e.rolearn == ...): index of the first match, 0 if none
FindFirst(entries, rolearn) ==
  IF Matches(entries, rolearn) = {} THEN 0
  ELSE CHOOSE i \in Matches(entries, rolearn) :
         \A j \in Matches(entries, rolearn) : i <= j

\* variant: the index is taken one too low
RemoveAtOffByOne(entries, idx) ==
  LET k == IF idx > 1 THEN idx - 1 ELSE idx IN
  [i \in 1..(Len(entries) - 1) |->
     IF i < k THEN entries[i] ELSE entries[i + 1]]

RemoveAt(entries, idx) ==
  [i \in 1..(Len(entries) - 1) |->
     IF i < idx THEN entries[i] ELSE entries[i + 1]]

\* variant: the entry is pushed without looking for a match
ApplyMergeAlwaysPush(entries, spec) ==
  [entries |-> Append(entries, spec), changed |-> TRUE]

\* variant: the update of an existing entry leaves its groups
ApplyMergeKeepGroups(entries, spec) ==
  LET i == FindFirst(entries, spec.rolearn) IN
  IF i # 0
  THEN IF (entries[i].username # spec.username)
          \/ (entries[i].groups # spec.groups)
       THEN [entries |-> [entries EXCEPT ![i].username = spec.username],
             changed |-> TRUE]
       ELSE [entries |-> entries, changed |-> FALSE]
  ELSE [entries |-> Append(entries, spec), changed |-> TRUE]

\* variant: every entry of the rolearn is updated, not the first only
ApplyMergeAllMatches(entries, spec) ==
  LET i == FindFirst(entries, spec.rolearn) IN
  IF i # 0
  THEN IF (entries[i].username # spec.username)
          \/ (entries[i].groups # spec.groups)
       THEN [entries |-> [k \in 1..Len(entries) |->
                            IF entries[k].rolearn = spec.rolearn
                            THEN spec ELSE entries[k]],
             changed |-> TRUE]
       ELSE [entries |-> entries, changed |-> FALSE]
  ELSE [entries |-> Append(entries, spec), changed |-> TRUE]

\* apply, lines 100-111: update the first match in place, or push
ApplyMerge(entries, spec) ==
  LET i == FindFirst(entries, spec.rolearn) IN
  IF i # 0
  THEN IF (entries[i].username # spec.username)
          \/ (entries[i].groups # spec.groups)
       THEN [entries |-> [entries EXCEPT ![i].username = spec.username,
                                         ![i].groups = spec.groups],
             changed |-> TRUE]
       ELSE [entries |-> entries, changed |-> FALSE]
  ELSE [entries |-> Append(entries, spec), changed |-> TRUE]

\* variant: every entry of the rolearn is removed
CleanupMergeRemoveAll(entries, spec) ==
  [entries |-> SelectSeq(entries, LAMBDA e : e.rolearn # spec.rolearn),
   changed |-> Matches(entries, spec.rolearn) # {}]

\* cleanup, lines 138-143: remove the first match
CleanupMerge(entries, spec) ==
  LET i == FindFirst(entries, spec.rolearn) IN
  IF i # 0
  THEN [entries |-> RemoveAt(entries, i), changed |-> TRUE]
  ELSE [entries |-> entries, changed |-> FALSE]

----------------------------------------------------------------------------
(* The conditional patch *)

MapRolesPath == "/data/mapRoles"

\* variant: the test carries the re-serialized text, not the fetched one
BuildPatchReencoded(prior, new) ==
  << [op |-> "test", path |-> MapRolesPath, value |-> Encode(Decode(prior))],
     [op |-> "replace", path |-> MapRolesPath, value |-> new] >>

\* variant: the replace goes out without its test
BuildPatchNoTest(prior, new) ==
  << [op |-> "replace", path |-> MapRolesPath, value |-> new] >>

\* json_patch::Patch(vec![Test{..}, Replace{..}])
BuildPatch(prior, new) ==
  << [op |-> "test", path |-> MapRolesPath, value |-> prior],
     [op |-> "replace", path |-> MapRolesPath, value |-> new] >>

NoPatch == << >>

\* The API server evaluating the operations of a JSON patch in order
RECURSIVE EvalOps(_, _)
EvalOps(c, ops) ==
  IF ops = << >> THEN [ok |-> TRUE, why |-> "ok", cm |-> c]
  ELSE LET op == Head(ops) IN
       IF op.op = "test"
       THEN IF c.rec = "present" /\ c.text = op.value
            THEN EvalOps(c, Tail(ops))
            ELSE [ok |-> FALSE, why |-> "conflict", cm |-> c]
       ELSE IF c.rec = "present"
            THEN EvalOps(Present(op.value), Tail(ops))
            ELSE [ok |-> FALSE, why |-> "invalid", cm |-> c]

\* api.patch as the store answers it: all operations or none
StorePatch(c, ops) ==
  IF c.rec = "missing" THEN [ok |-> FALSE, why |-> "notfound", cm |-> c]
  ELSE LET r == EvalOps(c, ops) IN
       IF r.ok THEN r ELSE [ok |-> FALSE, why |-> r.why, cm |-> c]

----------------------------------------------------------------------------
(* Results of the handlers *)

RequeueUpToDate == 60
RequeueApplied == 300
AwaitChange == 0
ErrorPolicy == 60

\* main.rs, the other binary of the package: requeue(secs) and the two
\* intervals its apply passes to it
MainRequeueUpToDate == 300
MainRequeueApplied == 300

MainRequeue(secs) == IF secs = 0 THEN AwaitChange ELSE secs

Ok(outcome, action) == [ok |-> TRUE, outcome |-> outcome, requeue |-> action]

\* variant: the error policy waits for the next change of the object
ErrAwaitChange(outcome) ==
  [ok |-> FALSE, outcome |-> outcome, requeue |-> AwaitChange]

Err(outcome) == [ok |-> FALSE, outcome |-> outcome, requeue |-> ErrorPolicy]

NoRes == [ok |-> TRUE, outcome |-> "None", requeue |-> 0]

\* variant: the unchanged entry ends the attempt without a requeue
ApplyGetAwaitChange(c, spec, net) ==
  IF net = "fail" THEN [kind |-> "return", r |-> Err("GetFailed")]
  ELSE IF c.rec = "missing" THEN [kind |-> "return", r |-> Err("GetNotFound")]
  ELSE IF c.rec # "present" THEN [kind |-> "panic"]
  ELSE IF ~DecodeOk(c.text) THEN [kind |-> "return", r |-> Err("YamlError")]
  ELSE LET m == ApplyMerge(Decode(c.text), spec) IN
       IF ~m.changed
       THEN [kind |-> "return", r |-> Ok("UpToDate", AwaitChange)]
       ELSE [kind |-> "patch", fetched |-> c.text,
             patch |-> BuildPatch(c.text, Encode(m.entries))]

\* variant: the unchanged entry is patched like a changed one
ApplyGetNoEarlyReturn(c, spec, net) ==
  IF net = "fail" THEN [kind |-> "return", r |-> Err("GetFailed")]
  ELSE IF c.rec = "missing" THEN [kind |-> "return", r |-> Err("GetNotFound")]
  ELSE IF c.rec # "present" THEN [kind |-> "panic"]
  ELSE IF ~DecodeOk(c.text) THEN [kind |-> "return", r |-> Err("YamlError")]
  ELSE LET m == ApplyMerge(Decode(c.text), spec) IN
       [kind |-> "patch", fetched |-> c.text,
        patch |-> BuildPatch(c.text, Encode(m.entries))]

\* apply, lines 96-111: what the attempt does with the answer of api.get
ApplyGet(c, spec, net) ==
  IF net = "fail" THEN [kind |-> "return", r |-> Err("GetFailed")]
  ELSE IF c.rec = "missing" THEN [kind |-> "return", r |-> Err("GetNotFound")]
  ELSE IF c.rec # "present" THEN [kind |-> "panic"]
  ELSE IF ~DecodeOk(c.text) THEN [kind |-> "return", r |-> Err("YamlError")]
  ELSE LET m == ApplyMerge(Decode(c.text), spec) IN
       IF ~m.changed
       THEN [kind |-> "return", r |-> Ok("UpToDate", RequeueUpToDate)]
       ELSE [kind |-> "patch", fetched |-> c.text,
             patch |-> BuildPatch(c.text, Encode(m.entries))]

\* variant: a rejected patch is taken for a committed one
ApplyPatchResultDropped(stored, net) ==
  IF net = "fail" THEN Err("PatchFailed") ELSE Ok("Applied", RequeueApplied)

\* apply, lines 113-130: what the attempt does with the answer of api.patch
ApplyPatchResult(stored, net) ==
  IF net = "fail" THEN Err("PatchFailed")
  ELSE IF stored.ok THEN Ok("Applied", RequeueApplied)
  ELSE IF stored.why = "conflict" THEN Err("PatchConflict")
  ELSE IF stored.why = "notfound" THEN Err("PatchNotFound")
  ELSE Err("PatchInvalid")

\* cleanup, lines 134-143 and 163
CleanupGet(c, spec, net) ==
  IF net = "fail" THEN [kind |-> "return", r |-> Err("GetFailed")]
  ELSE IF c.rec = "missing" THEN [kind |-> "return", r |-> Err("GetNotFound")]
  ELSE IF c.rec # "present" THEN [kind |-> "panic"]
  ELSE IF ~DecodeOk(c.text) THEN [kind |-> "return", r |-> Err("YamlError")]
  ELSE LET m == CleanupMerge(Decode(c.text), spec) IN
       IF ~m.changed
       THEN [kind |-> "return", r |-> Ok("Absent", AwaitChange)]
       ELSE [kind |-> "patch", fetched |-> c.text,
             patch |-> BuildPatch(c.text, Encode(m.entries))]

\* variant: the answer of api.patch is dropped instead of propagated
CleanupPatchResultDropped(stored, net) == Ok("Removed", AwaitChange)

\* cleanup, lines 145-163
CleanupPatchResult(stored, net) ==
  IF net = "fail" THEN Err("PatchFailed")
  ELSE IF stored.ok THEN Ok("Removed", AwaitChange)
  ELSE IF stored.why = "conflict" THEN Err("PatchConflict")
  ELSE IF stored.why = "notfound" THEN Err("PatchNotFound")
  ELSE Err("PatchInvalid")

----------------------------------------------------------------------------
(* The finalizer wrapper and the dispatch of its events *)

\* finalizer::finalizer: what the wrapper does for an object as delivered
FinalizerEvent(ob) ==
  IF ob.hasFin
  THEN IF ob.deleting THEN "Cleanup" ELSE "Apply"
  ELSE IF ob.deleting THEN "Nothing" ELSE "AddFinalizer"

\* variant: both events run apply
HandlerAlwaysApply(e) == "apply"

\* main, lines 66-69: the handler run for each event
Handler(e) == IF e = "Apply" THEN "apply" ELSE "cleanup"

\* The controller starts an attempt for an object that has a watch event
\* waiting or a requeue pending, and has no attempt in flight.
Startable(o) ==
  /\ ~crashed
  /\ obj[o].exists
  /\ pc[o] = "idle"
  /\ dirty[o] \/ res[o].requeue > 0

Nets == {"ok"} \cup (IF envLeft > 0 THEN {"fail"} ELSE {})

Spend(net) == envLeft' = IF net = "fail" THEN envLeft - 1 ELSE envLeft

\* The handler has returned r to the wrapper, in an attempt for event e:
\* after a successful Cleanup the wrapper goes on to remove the finalizer,
\* every other return ends the attempt.
HandlerReturn(o, e, r) ==
  /\ res' = [res EXCEPT ![o] = r]
  /\ pc' = [pc EXCEPT ![o] = IF e = "Cleanup" /\ r.ok
                             THEN "remove_fin" ELSE "idle"]
  /\ ev' = [ev EXCEPT ![o] = IF e = "Cleanup" /\ r.ok THEN e ELSE "None"]
  /\ mr' = [mr EXCEPT ![o] = NoSpec]
  /\ fetched' = [fetched EXCEPT ![o] = NoText]
  /\ patch' = [patch EXCEPT ![o] = NoPatch]

\* The handler is suspended in api.patch
HandlerPatch(o, e, fn, g) ==
  /\ pc' = [pc EXCEPT ![o] = IF fn = "apply" THEN "apply_patch"
                             ELSE "cleanup_patch"]
  /\ ev' = [ev EXCEPT ![o] = e]
  /\ mr' = [mr EXCEPT ![o] = obj[o].spec]
  /\ fetched' = [fetched EXCEPT ![o] = g.fetched]
  /\ patch' = [patch EXCEPT ![o] = g.patch]
  /\ res' = [res EXCEPT ![o] = NoRes]

\* unwrap() on None: the panic unwinds through the controller stream
Panic(o) ==
  /\ crashed' = TRUE
  /\ res' = [res EXCEPT ![o] = [ok |-> FALSE, outcome |-> "Panic",
                                requeue |-> 0]]
  /\ UNCHANGED <<pc, ev, mr, fetched, patch>>

\* An attempt starts, runs handler fn up to the answer of api.get
GetStep(o, net, fn, g) ==
  /\ Startable(o)
  /\ FinalizerEvent(obj[o]) \in {"Apply", "Cleanup"}
  /\ Handler(FinalizerEvent(obj[o])) = fn
  /\ dirty' = [dirty EXCEPT ![o] = FALSE]
  /\ Spend(net)
  /\ IF g.kind = "panic" THEN Panic(o)
     ELSE /\ UNCHANGED crashed
          /\ IF g.kind = "return"
             THEN HandlerReturn(o, FinalizerEvent(obj[o]), g.r)
             ELSE HandlerPatch(o, FinalizerEvent(obj[o]), fn, g)
  /\ UNCHANGED <<cm, obj>>

ApplyFetch(o, net) ==
  GetStep(o, net, "apply", ApplyGet(cm, obj[o].spec, net))

CleanupFetch(o, net) ==
  GetStep(o, net, "cleanup", CleanupGet(cm, obj[o].spec, net))

\* The answer of api.patch arrives
PatchStep(o, net, r) ==
  /\ ~crashed
  /\ Spend(net)
  /\ cm' = IF net = "ok" THEN StorePatch(cm, patch[o]).cm ELSE cm
  /\ HandlerReturn(o, ev[o], r)
  /\ UNCHANGED <<obj, dirty, crashed>>

ApplySubmit(o, net) ==
  /\ pc[o] = "apply_patch"
  /\ PatchStep(o, net, ApplyPatchResult(StorePatch(cm, patch[o]), net))

CleanupSubmit(o, net) ==
  /\ pc[o] = "cleanup_patch"
  /\ PatchStep(o, net, CleanupPatchResult(StorePatch(cm, patch[o]), net))

\* The wrapper adds the finalizer; the change of the object is a new event
AddFinalizer(o, net) ==
  /\ Startable(o)
  /\ FinalizerEvent(obj[o]) = "AddFinalizer"
  /\ Spend(net)
  /\ IF net = "ok"
     THEN /\ obj' = [obj EXCEPT ![o].hasFin = TRUE]
          /\ dirty' = [dirty EXCEPT ![o] = TRUE]
          /\ res' = [res EXCEPT ![o] = Ok("FinalizerAdded", AwaitChange)]
     ELSE /\ dirty' = [dirty EXCEPT ![o] = FALSE]
          /\ res' = [res EXCEPT ![o] = Err("AddFinalizerFailed")]
          /\ UNCHANGED obj
  /\ UNCHANGED <<cm, pc, ev, mr, fetched, patch, crashed>>

\* The wrapper removes the finalizer after Cleanup returned Ok; the store
\* then deletes the object
RemoveFinalizer(o, net) ==
  /\ ~crashed
  /\ pc[o] = "remove_fin"
  /\ Spend(net)
  /\ IF net = "ok"
     THEN /\ obj' = [obj EXCEPT ![o].hasFin = FALSE,
                                ![o].exists = ~obj[o].deleting]
          /\ dirty' = [dirty EXCEPT ![o] = ~obj[o].deleting]
          /\ UNCHANGED res
     ELSE /\ res' = [res EXCEPT ![o] = Err("RemoveFinalizerFailed")]
          /\ UNCHANGED <<obj, dirty>>
  /\ pc' = [pc EXCEPT ![o] = "idle"]
  /\ ev' = [ev EXCEPT ![o] = "None"]
  /\ UNCHANGED <<cm, mr, fetched, patch, crashed>>

----------------------------------------------------------------------------
(* The environment: users of the MapRole objects, other writers *)

EditSpec(o, s) ==
  /\ envLeft > 0
  /\ obj[o].exists /\ ~obj[o].deleting
  /\ s # obj[o].spec
  /\ obj' = [obj EXCEPT ![o].spec = s]
  /\ dirty' = [dirty EXCEPT ![o] = TRUE]
  /\ envLeft' = envLeft - 1
  /\ UNCHANGED <<cm, pc, ev, mr, fetched, patch, res, crashed>>

\* kubectl delete: with a finalizer the object is only marked
Delete(o) ==
  /\ obj[o].exists /\ ~obj[o].deleting
  /\ obj' = [obj EXCEPT ![o].deleting = TRUE, ![o].exists = obj[o].hasFin]
  /\ dirty' = [dirty EXCEPT ![o] = obj[o].hasFin]
  /\ UNCHANGED <<cm, pc, ev, mr, fetched, patch, res, crashed, envLeft>>

ExtCMs ==
  { Present(MkText(TRUE, << >>)),
    Present(MkText(FALSE, <<B1, A1>>)),
    Present(MkText(TRUE, <<A2, A1>>)),
    Present(Malformed),
    NoField, NoData, Missing }

ExternalWrite(c) ==
  /\ envLeft > 0
  /\ c # cm
  /\ cm' = c
  /\ envLeft' = envLeft - 1
  /\ UNCHANGED <<obj, pc, ev, mr, fetched, patch, res, dirty, crashed>>

----------------------------------------------------------------------------

InitCMs == { Present(MkText(TRUE, << >>)), Present(MkText(FALSE, <<B1, A1>>)) }

Init ==
  /\ cm \in InitCMs
  /\ \E s \in {A2, B1} :
       obj = [o \in Objs |->
                [exists |-> TRUE, hasFin |-> FALSE, deleting |-> FALSE,
                 spec |-> IF o = "o1" THEN A1 ELSE s]]
  /\ pc = [o \in Objs |-> "idle"]
  /\ ev = [o \in Objs |-> "None"]
  /\ mr = [o \in Objs |-> NoSpec]
  /\ fetched = [o \in Objs |-> NoText]
  /\ patch = [o \in Objs |-> NoPatch]
  /\ res = [o \in Objs |-> NoRes]
  /\ dirty = [o \in Objs |-> TRUE]
  /\ crashed = FALSE
  /\ envLeft = MaxEnv

Next ==
  \/ \E o \in Objs, net \in Nets : ApplyFetch(o, net)
  \/ \E o \in Objs, net \in Nets : ApplySubmit(o, net)
  \/ \E o \in Objs, net \in Nets : CleanupFetch(o, net)
  \/ \E o \in Objs, net \in Nets : CleanupSubmit(o, net)
  \/ \E o \in Objs, net \in Nets : AddFinalizer(o, net)
  \/ \E o \in Objs, net \in Nets : RemoveFinalizer(o, net)
  \/ \E o \in Objs, s \in SpecSet : EditSpec(o, s)
  \/ \E o \in Objs : Delete(o)
  \/ \E c \in ExtCMs : ExternalWrite(c)

Spec == Init /\ [][Next]_vars

\* Every step of an attempt that can be taken is taken in the end: the
\* controller delivers pending events and requeues, API calls return.
OperatorStep(o) ==
  \E net \in Nets :
    \/ ApplyFetch(o, net) \/ ApplySubmit(o, net)
    \/ CleanupFetch(o, net) \/ CleanupSubmit(o, net)
    \/ AddFinalizer(o, net) \/ RemoveFinalizer(o, net)

Fairness == \A o \in Objs : WF_vars(OperatorStep(o))

FairSpec == Init /\ [][Next]_vars /\ Fairness

----------------------------------------------------------------------------
(* The merges on every entry list: one registered MapRole, any spec, any  *)
(* list of up to MaxLen entries in the field, no disturbance.              *)

EntryLists == UNION {[1..n -> SpecSet] : n \in 0..MaxLen}

OneObject(s, fin) ==
  [o \in Objs |->
     IF o = "o1"
     THEN [exists |-> TRUE, hasFin |-> fin, deleting |-> FALSE, spec |-> s]
     ELSE [exists |-> FALSE, hasFin |-> FALSE, deleting |-> FALSE,
           spec |-> s]]

MergeInit ==
  /\ cm \in {Present(Encode(es)) : es \in EntryLists}
  /\ obj \in {OneObject(s, TRUE) : s \in SpecSet}
  /\ pc = [o \in Objs |-> "idle"]
  /\ ev = [o \in Objs |-> "None"]
  /\ mr = [o \in Objs |-> NoSpec]
  /\ fetched = [o \in Objs |-> NoText]
  /\ patch = [o \in Objs |-> NoPatch]
  /\ res = [o \in Objs |-> NoRes]
  /\ dirty = [o \in Objs |-> o = "o1"]
  /\ crashed = FALSE
  /\ envLeft = 0

MergeNext ==
  \/ \E o \in Objs : ApplyFetch(o, "ok")
  \/ \E o \in Objs : ApplySubmit(o, "ok")
  \/ \E o \in Objs : CleanupFetch(o, "ok")
  \/ \E o \in Objs : CleanupSubmit(o, "ok")
  \/ \E o \in Objs : RemoveFinalizer(o, "ok")
  \/ \E o \in Objs : Delete(o)

MergeSpec == MergeInit /\ [][MergeNext]_vars

----------------------------------------------------------------------------
(* One MapRole on an empty mapRoles list that nobody else writes: every   *)
(* entry of the list has been put there by an Apply of that MapRole.      *)

OrphanInit ==
  /\ cm = Present(Encode(<< >>))
  /\ obj \in {OneObject(s, FALSE) : s \in SpecSet}
  /\ pc = [o \in Objs |-> "idle"]
  /\ ev = [o \in Objs |-> "None"]
  /\ mr = [o \in Objs |-> NoSpec]
  /\ fetched = [o \in Objs |-> NoText]
  /\ patch = [o \in Objs |-> NoPatch]
  /\ res = [o \in Objs |-> NoRes]
  /\ dirty = [o \in Objs |-> o = "o1"]
  /\ crashed = FALSE
  /\ envLeft = MaxEnv

OrphanNext ==
  \/ \E o \in Objs, net \in Nets : ApplyFetch(o, net)
  \/ \E o \in Objs, net \in Nets : ApplySubmit(o, net)
  \/ \E o \in Objs, net \in Nets : CleanupFetch(o, net)
  \/ \E o \in Objs, net \in Nets : CleanupSubmit(o, net)
  \/ \E o \in Objs, net \in Nets : AddFinalizer(o, net)
  \/ \E o \in Objs, net \in Nets : RemoveFinalizer(o, net)
  \/ \E o \in Objs, s \in SpecSet : EditSpec(o, s)
  \/ \E o \in Objs : Delete(o)

OrphanSpec == OrphanInit /\ [][OrphanNext]_vars

----------------------------------------------------------------------------
(* Vocabulary of the properties *)

InFlightPatch(o) == pc[o] \in {"apply_patch", "cleanup_patch"}

\* o's handler gets the answer of its api.patch in this step
SubmitBy(o) ==
  /\ InFlightPatch(o)
  /\ pc'[o] \notin {"apply_patch", "cleanup_patch"}

\* the operator, not another client, changed the ConfigMap in this step
OperatorWrote == cm' # cm /\ envLeft' = envLeft

IsConditionalPatch(p, prior) ==
  /\ Len(p) = 2
  /\ p[1] = [op |-> "test", path |-> MapRolesPath, value |-> prior]
  /\ p[2].op = "replace"
  /\ p[2].path = MapRolesPath

FieldIs(c, text) == c.rec = "present" /\ c.text = text

Others(entries, rolearn) ==
  SelectSeq(entries, LAMBDA e : e.rolearn # rolearn)

Unique(entries) ==
  \A i, j \in 1..Len(entries) :
    entries[i].rolearn = entries[j].rolearn => i = j

Readable(c) == c.rec = "present" /\ DecodeOk(c.text)

----------------------------------------------------------------------------
\* C1: every write of apply and cleanup to mapRoles is the two-step patch
\* test-then-replace whose test value is the text the same attempt fetched;
\* the operator changes the field only in a step where the field still
\* equals that fetched text, and a submit that finds another value leaves
\* the ConfigMap as it is.
C1_ConditionalOnly ==
  /\ [](\A o \in Objs :
          InFlightPatch(o) => IsConditionalPatch(patch[o], fetched[o]))
  /\ [][OperatorWrote =>
          \E o \in Objs : SubmitBy(o) /\ FieldIs(cm, fetched[o])]_vars
  /\ [][\A o \in Objs :
          (SubmitBy(o) /\ ~FieldIs(cm, fetched[o])) => cm' = cm]_vars

\* a patch has committed and another one has been rejected by its test
C1_Witness ==
  \E o, p \in Objs :
    /\ res[o].outcome \in {"Applied", "Removed"}
    /\ res[p].outcome = "PatchConflict"
    /\ Readable(cm)

\* C2: a patch that commits for rolearn k leaves the entries of every other
\* rolearn as they were just before the commit, in the same order, and an
\* attempt whose fetched text is no longer the field's value changes nothing.
C2_NoLostUpdate ==
  [][\A o \in Objs :
       SubmitBy(o) =>
         /\ cm' # cm =>
              /\ Readable(cm) /\ Readable(cm')
              /\ Others(Decode(cm'.text), mr[o].rolearn)
                   = Others(Decode(cm.text), mr[o].rolearn)
         /\ ~FieldIs(cm, fetched[o]) => cm' = cm]_vars

\* an attempt is in flight with a stale text after another object's patch
\* committed an entry of another rolearn
C2_Witness ==
  \E o, p \in Objs :
    /\ InFlightPatch(o)
    /\ ~FieldIs(cm, fetched[o])
    /\ res[p].outcome = "Applied"
    /\ obj[p].spec.rolearn # mr[o].rolearn
    /\ Readable(cm)
    /\ FindFirst(Decode(cm.text), obj[p].spec.rolearn) # 0

\* o's attempt for a Cleanup event has its handler return Ok in this step
CleanupReturnsOk(o) == pc[o] # "remove_fin" /\ pc'[o] = "remove_fin"

\* an operator step of o that starts from no attempt in flight
StartBy(o) ==
  /\ pc[o] = "idle"
  /\ obj'[o].spec = obj[o].spec /\ obj'[o].deleting = obj[o].deleting
  /\ \/ pc'[o] # "idle"
     \/ res'[o] # res[o]
     \/ dirty[o] /\ ~dirty'[o]
     \/ obj'[o].hasFin # obj[o].hasFin

\* C3: the finalizer of an object is removed only by the step that follows
\* a Cleanup whose patch committed or which found no entry of the object's
\* rolearn; a Cleanup attempt that ends in an error (get, decode, patch)
\* leaves the object with its finalizer, marked for deletion.
C3_FinalizerOnlyAfterCleanup ==
  [][\A o \in Objs :
       /\ (obj[o].hasFin /\ ~obj'[o].hasFin) =>
            pc[o] = "remove_fin" /\ ev[o] = "Cleanup" /\ obj[o].deleting
       /\ CleanupReturnsOk(o) =>
            /\ obj[o].hasFin /\ obj[o].deleting
            /\ \/ /\ pc[o] = "cleanup_patch"
                  /\ FieldIs(cm, fetched[o])
                  /\ cm' = Present(patch[o][2].value)
                  /\ FindFirst(Decode(fetched[o]), mr[o].rolearn) # 0
               \/ /\ pc[o] = "idle"
                  /\ Readable(cm)
                  /\ FindFirst(Decode(cm.text), obj[o].spec.rolearn) = 0
                  /\ cm' = cm
       /\ (/\ obj[o].hasFin /\ obj[o].deleting /\ obj[o].exists
           /\ res'[o] # res[o] /\ ~res'[o].ok) =>
            /\ obj'[o].hasFin /\ obj'[o].deleting /\ obj'[o].exists
            /\ pc'[o] = "idle"]_vars

\* one object is gone after its Cleanup removed its entry while another,
\* whose Cleanup lost the race, keeps its finalizer
C3_Witness ==
  \E o, p \in Objs :
    /\ ~obj[o].exists /\ ~obj[o].hasFin /\ res[o].outcome = "Removed"
    /\ obj[p].exists /\ obj[p].hasFin /\ obj[p].deleting
    /\ res[p].outcome = "PatchConflict"

\* o's attempt runs the apply handler in this step
ApplyRuns(o) ==
  \/ pc[o] = "idle" /\ pc'[o] = "apply_patch"
  \/ pc[o] = "idle" /\ res'[o] # res[o] /\ res'[o].outcome = "UpToDate"
  \/ pc[o] = "apply_patch" /\ pc'[o] # "apply_patch"

\* C4: apply runs only in an attempt that found the object with the
\* finalizer and not marked for deletion; for an object without them the
\* attempt only adds the finalizer, and when that fails the ConfigMap and
\* the object are as before and a retry is pending.
C4_ApplyOnlyRegistered ==
  /\ [](\A o \in Objs :
          pc[o] = "apply_patch" => ev[o] = "Apply" /\ obj[o].hasFin)
  /\ [][\A o \in Objs :
          /\ (ApplyRuns(o) /\ pc[o] = "idle") =>
               obj[o].exists /\ obj[o].hasFin /\ ~obj[o].deleting
          /\ (StartBy(o) /\ ~obj[o].hasFin) =>
               /\ ~obj[o].deleting
               /\ cm' = cm /\ pc'[o] = "idle"
               /\ res'[o].outcome \in {"FinalizerAdded", "AddFinalizerFailed"}
               /\ obj'[o].hasFin = (res'[o].outcome = "FinalizerAdded")
               /\ res'[o].outcome = "AddFinalizerFailed" =>
                    obj'[o] = obj[o] /\ res'[o].requeue > 0]_vars

\* adding the finalizer failed for one object, which still has none, while
\* the apply of a registered object has committed
C4_Witness ==
  \E o, p \in Objs :
    /\ res[o].outcome = "AddFinalizerFailed" /\ ~obj[o].hasFin
    /\ obj[o].exists /\ pc[o] = "idle"
    /\ res[p].outcome = "Applied" /\ obj[p].hasFin

\* C5: a submit that finds the field changed since the fetch ends the
\* attempt with the conflict error, leaves the ConfigMap as it is and is
\* not repeated in the attempt; the next attempt of the object begins with
\* a get, and the patch it builds tests the text of that get.
C5_ConflictEndsAttempt ==
  [][\A o \in Objs :
       /\ (SubmitBy(o) /\ envLeft' = envLeft /\ cm.rec = "present"
             /\ cm.text # fetched[o]) =>
            /\ res'[o].outcome = "PatchConflict" /\ ~res'[o].ok
            /\ cm' = cm
            /\ pc'[o] = "idle" /\ patch'[o] = NoPatch
       /\ (SubmitBy(o) /\ res'[o].outcome = "PatchConflict") =>
            ~FieldIs(cm, fetched[o]) /\ cm' = cm
       /\ (res[o].outcome = "PatchConflict" /\ StartBy(o)) =>
            /\ cm' = cm
            /\ pc'[o] \in {"apply_patch", "cleanup_patch"} =>
                 /\ fetched'[o] = cm.text
                 /\ IsConditionalPatch(patch'[o], cm.text)]_vars

\* an attempt ended in the conflict error and the field holds the text of
\* the winner, which is not empty
C5_Witness ==
  \E o \in Objs :
    /\ res[o].outcome = "PatchConflict" /\ pc[o] = "idle"
    /\ obj[o].exists
    /\ Readable(cm) /\ Len(Decode(cm.text)) > 0

\* C6: a write of the operator to a field whose entries have pairwise
\* different rolearns leaves them pairwise different, also when several
\* objects name the same rolearn.
C6_UniquePreserved ==
  [][(OperatorWrote /\ Readable(cm) /\ Unique(Decode(cm.text))) =>
       (Readable(cm') /\ Unique(Decode(cm'.text)))]_vars

\* two objects of the same rolearn have both applied and the field holds
\* one entry of that rolearn
C6_Witness ==
  /\ obj["o1"].spec.rolearn = obj["o2"].spec.rolearn
  /\ res["o1"].outcome = "Applied" /\ res["o2"].outcome = "Applied"
  /\ Readable(cm) /\ Unique(Decode(cm.text))
  /\ FindFirst(Decode(cm.text), obj["o1"].spec.rolearn) # 0

HasIdentical(entries, spec) ==
  /\ FindFirst(entries, spec.rolearn) # 0
  /\ entries[FindFirst(entries, spec.rolearn)] = spec

\* C7: the merge of apply, run again with the same spec on its own result,
\* reports no change and returns that result; an Apply attempt that reads
\* a field whose first entry of the rolearn equals the spec sends no patch,
\* changes nothing and ends Ok.
C7_ApplyIdempotent ==
  /\ [](Readable(cm) =>
          \A s \in SpecSet :
            LET once == ApplyMerge(Decode(cm.text), s)
                twice == ApplyMerge(once.entries, s)
            IN ~twice.changed /\ twice.entries = once.entries)
  /\ [][\A o \in Objs :
          (/\ StartBy(o) /\ envLeft' = envLeft
           /\ obj[o].hasFin /\ ~obj[o].deleting
           /\ Readable(cm) /\ HasIdentical(Decode(cm.text), obj[o].spec)) =>
             /\ cm' = cm
             /\ pc'[o] = "idle" /\ patch'[o] = NoPatch
             /\ res'[o] = Ok("UpToDate", RequeueUpToDate)]_vars

\* an Apply attempt found its entry in place in a field of several entries
C7_Witness ==
  \E o \in Objs :
    /\ res[o].outcome = "UpToDate" /\ pc[o] = "idle"
    /\ Readable(cm) /\ HasIdentical(Decode(cm.text), obj[o].spec)
    /\ Len(Decode(cm.text)) > 1

\* C8: when the ConfigMap is readable from some point on (failures and
\* foreign writes are finitely many), an object marked for deletion with
\* its finalizer is gone in the end.
C8_DeletionCompletes ==
  (<>[]Readable(cm)) =>
    \A o \in Objs :
      (obj[o].exists /\ obj[o].deleting /\ obj[o].hasFin) ~> ~obj[o].exists

\* C9: when from some point on the ConfigMap is readable and an object is
\* there, not marked for deletion, the field holds in the end, and keeps,
\* an entry equal to the object's spec.
C9_UpdateArrives ==
  \A o \in Objs :
    (<>[](Readable(cm) /\ obj[o].exists /\ ~obj[o].deleting)) =>
      <>[](Readable(cm) /\ HasIdentical(Decode(cm.text), obj[o].spec))

\* C10: no attempt ends in a panic, whatever the state of the ConfigMap.
C10_NoPanic == ~crashed /\ \A o \in Objs : res[o].outcome # "Panic"

----------------------------------------------------------------------------
(* Scheduling of the next attempt *)

\* errors of a lost race and of the transport
RetryOutcomes == {"PatchConflict", "GetFailed", "PatchFailed",
                  "AddFinalizerFailed", "RemoveFinalizerFailed"}

\* errors that no retry repairs: no ConfigMap, a text that does not parse
FatalOutcomes == {"GetNotFound", "YamlError", "PatchNotFound", "PatchInvalid"}

\* C11 (as the claim has it): an Apply that finds the entry up to date and
\* an Apply that commits a patch requeue at the same interval.
C11_SameInterval ==
  \A o, p \in Objs :
    (res[o].outcome = "UpToDate" /\ res[p].outcome = "Applied") =>
      res[o].requeue = res[p].requeue

\* C11 (amended): the recheck after an up-to-date Apply is not later than
\* the recheck after a committed one, and both are requeued after a finite,
\* non-zero time; so it is in both binaries.
C11_RecheckIntervals ==
  /\ \A o \in Objs :
       /\ res[o].outcome \in {"UpToDate", "Applied"} =>
            res[o].ok /\ res[o].requeue > 0
       /\ \A p \in Objs :
            (res[o].outcome = "UpToDate" /\ res[p].outcome = "Applied") =>
              res[o].requeue <= res[p].requeue
  /\ MainRequeue(MainRequeueUpToDate) > 0
  /\ MainRequeue(MainRequeueUpToDate) <= MainRequeue(MainRequeueApplied)

\* one object's Apply found its entry up to date, the other's committed
C11_Witness ==
  \E o, p \in Objs :
    /\ res[o].outcome = "UpToDate" /\ res[p].outcome = "Applied"
    /\ obj[o].exists /\ obj[p].exists

\* C12: an attempt that ends in a conflict or a transport error leaves a
\* requeue pending, not later than the recheck of a successful Apply, so
\* the object can start again; the next attempt changes nothing before its
\* get, and the patch it builds is made of that get and the object's spec.
C12_RetryScheduled ==
  /\ [](\A o \in Objs :
          res[o].outcome \in RetryOutcomes =>
            /\ ~res[o].ok
            /\ res[o].requeue > 0
            /\ res[o].requeue <= RequeueUpToDate
            /\ res[o].requeue <= RequeueApplied
            /\ (pc[o] = "idle" /\ obj[o].exists /\ ~crashed) => Startable(o))
  /\ [][\A o \in Objs :
          (res[o].outcome \in RetryOutcomes /\ StartBy(o)) =>
            /\ cm' = cm
            /\ pc'[o] \in {"apply_patch", "cleanup_patch"} =>
                 /\ fetched'[o] = cm.text
                 /\ mr'[o] = obj[o].spec
                 /\ IsConditionalPatch(patch'[o], cm.text)]_vars

\* an attempt ended in a transport error of its patch; no watch event is
\* waiting, only the requeue
C12_Witness ==
  \E o \in Objs :
    /\ res[o].outcome = "PatchFailed"
    /\ pc[o] = "idle" /\ obj[o].exists /\ ~dirty[o] /\ ~crashed

\* C13: an error that no retry repairs is requeued otherwise than a
\* conflict or a transport error, and from one such error of an object to
\* its next the requeue time grows.
C13_FatalBacksOff ==
  /\ [](\A o, p \in Objs :
          (res[o].outcome \in FatalOutcomes
             /\ res[p].outcome \in RetryOutcomes) =>
            res[o].requeue # res[p].requeue)
  /\ [][\A o \in Objs :
          (res[o].outcome \in FatalOutcomes
             /\ res'[o].outcome \in FatalOutcomes /\ res'[o] # res[o]) =>
            res'[o].requeue > res[o].requeue]_vars

\* C17: the operator changes the ConfigMap only in the step in which a
\* patch commits, and then to the whole text of the patch, whose entries
\* differ from the fetched ones; an attempt that ends in an error or finds
\* nothing to change, and the part of an attempt before its api.patch,
\* leave the ConfigMap as it is.
C17_OnlyCommitWrites ==
  [][/\ OperatorWrote =>
          \E o \in Objs :
            /\ SubmitBy(o) /\ FieldIs(cm, fetched[o])
            /\ cm' = Present(patch[o][2].value)
            /\ Readable(cm')
            /\ Decode(cm'.text) # Decode(fetched[o])
            /\ res'[o].outcome \in {"Applied", "Removed"}
     /\ \A o \in Objs :
          /\ (res'[o] # res[o]
                /\ res'[o].outcome \notin {"Applied", "Removed"}) => cm' = cm
          /\ (pc[o] = "idle" /\ pc'[o] # "idle") => cm' = cm]_vars

\* an attempt met a text that does not parse and left it in place
C17_Witness ==
  \E o \in Objs :
    /\ res[o].outcome = "YamlError" /\ pc[o] = "idle"
    /\ cm = Present(Malformed)

----------------------------------------------------------------------------
(* The merges against their description *)

NoKey(es, d) == \A k \in 1..Len(es) : es[k].rolearn # d.rolearn

IsFirstKey(es, d, k) ==
  /\ es[k].rolearn = d.rolearn
  /\ \A j \in 1..(k - 1) : es[j].rolearn # d.rolearn

\* m is what apply_merge is to make of the entries es and the desired d
ApplyMergePost(es, d, m) ==
  /\ NoKey(es, d) => m.changed /\ m.entries = es \o <<d>>
  /\ \A k \in 1..Len(es) :
       IsFirstKey(es, d, k) =>
         IF es[k].username # d.username \/ es[k].groups # d.groups
         THEN /\ m.changed
              /\ Len(m.entries) = Len(es)
              /\ m.entries[k] = d
              /\ \A j \in 1..Len(es) : j # k => m.entries[j] = es[j]
         ELSE ~m.changed /\ m.entries = es

\* m is what cleanup_merge is to make of the entries es and the desired d
CleanupMergePost(es, d, m) ==
  /\ NoKey(es, d) => ~m.changed /\ m.entries = es
  /\ \A k \in 1..Len(es) :
       IsFirstKey(es, d, k) =>
         /\ m.changed
         /\ Len(m.entries) = Len(es) - 1
         /\ \A j \in 1..(Len(es) - 1) :
              m.entries[j] = IF j < k THEN es[j] ELSE es[j + 1]

\* C14: on every entry list and spec the merge of apply appends the spec
\* when no entry has its rolearn, rewrites the first entry of the rolearn
\* in place when it differs and leaves the rest, later entries of the same
\* rolearn too, and reports no change when that first entry is equal; the
\* patch of an Apply attempt carries that list.
C14_ApplyMergeMatches ==
  /\ Readable(cm) =>
       \A d \in SpecSet :
         ApplyMergePost(Decode(cm.text), d, ApplyMerge(Decode(cm.text), d))
  /\ \A o \in Objs :
       pc[o] = "apply_patch" =>
         ApplyMergePost(Decode(fetched[o]), mr[o],
                        [entries |-> Decode(patch[o][2].value),
                         changed |-> TRUE])

\* an Apply has rewritten the first entry of its rolearn and a later entry
\* of the same rolearn is still as it was
C14_Witness ==
  \E o \in Objs :
    /\ res[o].outcome = "Applied" /\ Readable(cm)
    /\ \E i, j \in 1..Len(Decode(cm.text)) :
         /\ i < j
         /\ IsFirstKey(Decode(cm.text), obj[o].spec, i)
         /\ Decode(cm.text)[i] = obj[o].spec
         /\ Decode(cm.text)[j].rolearn = obj[o].spec.rolearn
         /\ Decode(cm.text)[j] # obj[o].spec

\* C15: the merge of cleanup removes the first entry of the rolearn and no
\* other, keeping the order of the rest; without such an entry it returns
\* the list and reports no change, and the Cleanup attempt then ends Ok
\* without a patch.
C15_CleanupMergeFirstOnly ==
  /\ [](/\ Readable(cm) =>
             \A d \in SpecSet :
               CleanupMergePost(Decode(cm.text), d,
                                CleanupMerge(Decode(cm.text), d))
        /\ \A o \in Objs :
             pc[o] = "cleanup_patch" =>
               CleanupMergePost(Decode(fetched[o]), mr[o],
                                [entries |-> Decode(patch[o][2].value),
                                 changed |-> TRUE]))
  /\ [][\A o \in Objs :
          (/\ StartBy(o) /\ envLeft' = envLeft
           /\ obj[o].hasFin /\ obj[o].deleting
           /\ Readable(cm) /\ NoKey(Decode(cm.text), obj[o].spec)) =>
             /\ res'[o] = Ok("Absent", AwaitChange)
             /\ pc'[o] = "remove_fin" /\ patch'[o] = NoPatch
             /\ cm' = cm]_vars

\* a Cleanup has removed the first entry of its rolearn and a later entry
\* of the same rolearn is still there
C15_Witness ==
  \E o \in Objs :
    /\ res[o].outcome = "Removed" /\ Readable(cm)
    /\ ~NoKey(Decode(cm.text), obj[o].spec)

\* C16: on an entry list without the rolearn of d, the merge of cleanup
\* for d undoes the merge of apply for d: the same entries in the same
\* order.
C16_CleanupInvertsApply ==
  /\ Readable(cm) =>
       \A d \in SpecSet :
         NoKey(Decode(cm.text), d) =>
           CleanupMerge(ApplyMerge(Decode(cm.text), d).entries, d).entries
             = Decode(cm.text)
  /\ \A o \in Objs :
       (pc[o] = "apply_patch" /\ NoKey(Decode(fetched[o]), mr[o])) =>
         CleanupMerge(Decode(patch[o][2].value), mr[o]).entries
           = Decode(fetched[o])

\* an Apply is adding its entry to a list of several entries of another
\* rolearn
C16_Witness ==
  \E o \in Objs :
    /\ pc[o] = "apply_patch"
    /\ NoKey(Decode(fetched[o]), mr[o])
    /\ Len(Decode(fetched[o])) >= 2
    /\ Len(Decode(patch[o][2].value)) = Len(Decode(fetched[o])) + 1

\* C18: when the only MapRole there ever was is gone, whatever edits its
\* spec went through, the mapRoles list that started empty and that only
\* its attempts wrote holds no entry any more.
C18_NoOrphan ==
  \A o \in Objs :
    (obj[o].deleting /\ ~obj[o].exists) =>
      Readable(cm) /\ Decode(cm.text) = << >>

====
